---- MODULE Spec2Model ----
(***************************************************************************)
(* SolVault order engine (src/solvault.py): JupiterAPI (price oracle and   *)
(* liquidity pool) and SolVault (accounts, order placement, tick           *)
(* evaluation, trailing stops, manual close).                              *)
(*                                                                         *)
(* Numbers.  Python floats are modelled as fixed-point integers with two   *)
(* decimals: a price of 103.0 is 10300.  Amounts are whole units, so a     *)
(* notional |amount| * price is in the same hundredths (balance 5000.0 is  *)
(* 500000, the pool's 10000.0 is 1000000).  Prices are whole units         *)
(* (multiples of 100) and trail percents are whole numbers, which makes    *)
(* price * (percent / 100) exact.                                          *)
(***************************************************************************)
EXTENDS Integers, Sequences, FiniteSets

\* ------------------------------------------------------------- bounds
\* orders admitted, check_market_and_execute calls, positions closed by hand
MaxOrders == 2
MaxTicks == 2
MaxCloses == 1
\* how far, in whole units, the simulated price may wander from its start
MaxDown == 1
MaxUp == 2

\* ------------------------------------------------- program constants
StartPrice == 10000
StartPool == 1000000

PriceLo == StartPrice - 100 * MaxDown

PriceHi == StartPrice + 100 * MaxUp

\* Python's None, for Optional[float] fields (every real value is checked
\* against it before it is used as a number).
None == 0 - 1

\* ------------------------------------------------------------- inputs
Usernames == {"", "alice", "bob"}
Passwords == {"", "pw"}
Balances == {0 - 100, 2000000}
Request(username, trade_type, amount, limit_price, stop_loss, take_profit, trailing_stop, trailing_percent) ==
    [username |-> username, trade_type |-> trade_type, amount |-> amount,
     limit_price |-> limit_price, stop_loss |-> stop_loss,
     take_profit |-> take_profit, trailing_stop |-> trailing_stop,
     trailing_percent |-> trailing_percent]

\* place_order calls whose arguments pass validation: long and short, with
\* no exit leg, one leg, both, and both with the take-profit below the
\* stop-loss, with and without a trailing stop
GoodRequests ==
    {Request("alice", "perp", 10, 10100, 9900, 10200, TRUE, 1),
     Request("alice", "perp", 10, 10100, 10200, 10000, FALSE, 1),
     Request("alice", "perp", 0 - 50, 10100, 10200, None, TRUE, 1),
     Request("bob", "perp", 10, 10100, None, 10200, TRUE, 1),
     Request("bob", "spot", 85, 10100, None, None, FALSE, 1),
     Request("bob", "perp", 0 - 100, 10100, None, 10200, FALSE, 1)}

\* place_order calls with one argument out of its domain, or too large an amount
BadRequests ==
    {Request("", "perp", 10, 10100, 9900, 10200, FALSE, 1),
     Request("alice", "swap", 10, 10100, 9900, 10200, FALSE, 1),
     Request("alice", "perp", 0, 10100, 9900, 10200, FALSE, 1),
     Request("alice", "perp", 10, 0, 9900, 10200, FALSE, 1),
     Request("alice", "perp", 10, 10100, 0, 10200, FALSE, 1),
     Request("alice", "perp", 10, 10100, 9900, 0, FALSE, 1),
     Request("alice", "perp", 10, 10100, 9900, 10200, TRUE, 0),
     Request("alice", "perp", 10, 10100, 9900, 10200, FALSE, 0),
     Request("alice", "perp", 500, 10100, 9900, 10200, FALSE, 1)}

Requests == GoodRequests \cup BadRequests

\* random.uniform(-1.5, 1.5): the whole-unit moves in that interval
PriceMoves == {0 - 100, 0, 100}

VARIABLES
    users,          \* SolVault.users: username -> account dict
    orders,         \* SolVault.orders: the global order list
    current_price,  \* JupiterAPI.current_price
    liquidity_pool, \* JupiterAPI.liquidity_pool
    pc,             \* "idle", or "loop" inside check_market_and_execute's for
    idx,            \* the for loop's position in orders (1-based)
    tick_price,     \* check_market_and_execute's local current_price
    ticks,          \* number of check_market_and_execute calls so far
    closes,         \* number of close_position calls that reached the price sample
    quiet,          \* how quiet the tick's price sample found the orders
    out,            \* what the last step of check_market_and_execute printed
    result          \* the last call and how it ended ("ok" or the exception raised)

vars == <<users, orders, current_price, liquidity_pool, pc, idx, tick_price,
          ticks, closes, quiet, out, result>>

\* ------------------------------------------------------------ helpers
Abs(x) == IF x < 0 THEN 0 - x ELSE x

Max(a, b) == IF a >= b THEN a ELSE b

Min(a, b) == IF a <= b THEN a ELSE b

\* Python truthiness of an Optional[float]: None and 0.0 are falsy
Truthy(x) == x # None /\ x # 0

RECURSIVE SumValues(_)
SumValues(ps) ==
    IF ps = <<>> THEN 0 ELSE Head(ps).current_value + SumValues(Tail(ps))

\* Position.update_value over a list of positions
RefreshAll(ps, price) ==
    [k \in 1..Len(ps) |-> [ps[k] EXCEPT !.current_value = ps[k].amount * price]]

RemoveAt(s, k) == [j \in 1..(Len(s) - 1) |-> IF j < k THEN s[j] ELSE s[j + 1]]

\* JupiterAPI.get_price: the prices one call can return
get_price(p) == {q \in {p + d : d \in PriceMoves} : PriceLo <= q /\ q <= PriceHi}

NextPrices == get_price(current_price)

\* The class of the exception that carries a message
Raised(err) == IF err \in {"ok", "KeyError", "TypeError"} THEN err ELSE "ValueError"

Init ==
    /\ users = [u \in {} |-> 0]
    /\ orders = <<>>
    /\ current_price = StartPrice
    /\ liquidity_pool = StartPool
    /\ pc = "idle"
    /\ idx = 0
    /\ tick_price = None
    /\ ticks = 0
    /\ closes = 0
    /\ quiet = "no"
    /\ out = <<>>
    /\ result = [op |-> "init", err |-> "ok"]

\* ----------------------------------------------------------- register
register_error(username, password, initial_balance) ==
    IF username = "" THEN "Username must be a non-empty string."
    ELSE IF password = "" THEN "Password must be a non-empty string."
    ELSE IF initial_balance < 0 THEN "Initial balance must be a non-negative number."
    ELSE IF username \in DOMAIN users THEN "Username already exists."
    ELSE "ok"

Register ==
    /\ pc = "idle"
    /\ \E username \in Usernames, password \in Passwords, initial_balance \in Balances :
        LET err == register_error(username, password, initial_balance) IN
        /\ users' = IF err = "ok"
                    THEN [u \in DOMAIN users \cup {username} |->
                            IF u = username
                            THEN [password |-> password,
                                  balance |-> initial_balance,
                                  positions |-> <<>>,
                                  orders |-> <<>>,
                                  portfolio_history |-> <<>>]
                            ELSE users[u]]
                    ELSE users
        /\ out' = <<>>
        /\ result' = [op |-> "register", err |-> Raised(err)]
    /\ UNCHANGED <<orders, current_price, liquidity_pool, pc, idx, tick_price,
                   ticks, closes, quiet>>

\* ------------------------------------------------- calculate_risk_reward
\* The ratio reward / risk is kept as the pair of its terms (<<>> when there
\* is none); err is the ValueError it raises, if any.
calculate_risk_reward(entry_price, stop_loss, take_profit) ==
    IF entry_price <= 0 \/ stop_loss <= 0 \/ take_profit <= 0
    THEN [err |-> "Prices must be positive.", ratio |-> <<>>]
    ELSE IF Abs(entry_price - stop_loss) = 0
    THEN [err |-> "Risk cannot be zero.", ratio |-> <<>>]
    ELSE [err |-> "ok",
          ratio |-> <<Abs(take_profit - entry_price), Abs(entry_price - stop_loss)>>]

\* --------------------------------------------------------- place_order
\* The _validate_* calls and the users[username] lookup, which all run
\* before the price is sampled.
place_order_validate(username, trade_type, amount, limit_price, stop_loss, take_profit, trailing_percent) ==
    IF username = "" THEN "Username must be a non-empty string."
    ELSE IF trade_type \notin {"spot", "perp"} THEN "Trade type must be 'spot' or 'perp'."
    ELSE IF amount = 0 THEN "Amount must be a non-zero number."
    ELSE IF limit_price <= 0 THEN "Limit price must be a positive number."
    ELSE IF stop_loss # None /\ stop_loss <= 0
    THEN "Stop loss, if provided, must be a positive number."
    ELSE IF take_profit # None /\ take_profit <= 0
    THEN "Take profit, if provided, must be a positive number."
    ELSE IF trailing_percent <= 0 THEN "Trailing percent must be a positive number."
    ELSE IF username \notin DOMAIN users THEN "KeyError"
    ELSE "ok"

\* The checks made with the sampled price: affordability, then risk/reward.
place_order_check(balance, amount, price, stop_loss, take_profit) ==
    IF balance < Abs(amount) * price THEN "Insufficient balance for the order."
    ELSE IF Truthy(stop_loss) /\ Truthy(take_profit)
    THEN calculate_risk_reward(price, stop_loss, take_profit).err
    ELSE "ok"

new_order(username, trade_type, amount, limit_price, stop_loss, take_profit, trailing_stop, trailing_percent, price) ==
    [username |-> username,
     type |-> trade_type,
     amount |-> amount,
     limit_price |-> limit_price,
     stop_loss |-> stop_loss,
     trailing_stop |-> trailing_stop,
     trail_percent |-> IF trailing_stop THEN trailing_percent ELSE None,
     take_profit |-> take_profit,
     oco |-> (stop_loss # None /\ take_profit # None),
     active |-> TRUE,
     entry_price |-> None,
     rr_ratio |-> IF Truthy(stop_loss) /\ Truthy(take_profit)
                  THEN calculate_risk_reward(price, stop_loss, take_profit).ratio
                  ELSE <<>>]

\* admit, had placement also reserved the order's notional from the balance
admit_Reserving(us, os, order) ==
    [users |-> [us EXCEPT ![order.username].orders = Append(@, Len(os) + 1),
                          ![order.username].balance =
                              @ - Abs(order.amount) * order.limit_price],
     orders |-> Append(os, order)]

\* self.orders.append(order); user["orders"].append(order).  The account's
\* list holds the same dict objects: here, their places in the global list.
admit(us, os, order) ==
    [users |-> [us EXCEPT ![order.username].orders = Append(@, Len(os) + 1)],
     orders |-> Append(os, order)]

\* place_order_effect, had the order been appended before the risk/reward check
place_order_effect_AppendFirst(us, os, err, order) ==
    IF err \in {"ok", "Risk cannot be zero."}
    THEN admit(us, os, order) ELSE [users |-> us, orders |-> os]

\* The state place_order leaves, given how its checks ended.
place_order_effect(us, os, err, order) ==
    IF err = "ok" THEN admit(us, os, order) ELSE [users |-> us, orders |-> os]

PlaceOrder ==
    /\ pc = "idle"
    /\ Len(orders) < MaxOrders
    /\ \E rq \in Requests :
        LET username == rq.username
            trade_type == rq.trade_type
            amount == rq.amount
            limit_price == rq.limit_price
            stop_loss == rq.stop_loss
            take_profit == rq.take_profit
            trailing_stop == rq.trailing_stop
            trailing_percent == rq.trailing_percent
            pre == place_order_validate(username, trade_type, amount, limit_price,
                                        stop_loss, take_profit, trailing_percent) IN
        IF pre # "ok"
        THEN /\ result' = [op |-> "place_order", err |-> Raised(pre)]
             /\ out' = <<>>
             /\ UNCHANGED <<users, orders, current_price>>
        ELSE \E price \in NextPrices :
             LET err == place_order_check(users[username].balance, amount, price,
                                          stop_loss, take_profit)
                 order == new_order(username, trade_type, amount, limit_price,
                                    stop_loss, take_profit, trailing_stop,
                                    trailing_percent, price)
                 eff == place_order_effect(users, orders, err, order) IN
             /\ current_price' = price
             /\ users' = eff.users
             /\ orders' = eff.orders
             /\ out' = <<>>
             /\ result' = [op |-> "place_order", err |-> Raised(err)]
    /\ UNCHANGED <<liquidity_pool, pc, idx, tick_price, ticks, closes, quiet>>

\* ------------------------------------------------------ close_position
ClosePosition ==
    /\ pc = "idle"
    /\ \E username \in Usernames, position_index \in 0..MaxTicks :
        IF username = ""
        THEN /\ result' = [op |-> "close_position", err |-> "ValueError"]
             /\ out' = <<>>
             /\ UNCHANGED <<users, current_price, closes>>
        ELSE IF username \notin DOMAIN users
        THEN /\ result' = [op |-> "close_position", err |-> "KeyError"]
             /\ out' = <<>>
             /\ UNCHANGED <<users, current_price, closes>>
        ELSE IF ~(0 <= position_index /\ position_index < Len(users[username].positions))
        THEN /\ result' = [op |-> "close_position", err |-> "ValueError"]
             /\ out' = <<>>
             /\ UNCHANGED <<users, current_price, closes>>
        ELSE \E price \in NextPrices :
             LET position == users[username].positions[position_index + 1]
                 current_value == position.amount * price IN
             /\ closes < MaxCloses
             /\ closes' = closes + 1
             /\ current_price' = price
             /\ users' = [users EXCEPT
                    ![username].balance = @ + current_value,
                    ![username].positions = RemoveAt(@, position_index + 1)]
             /\ out' = <<>>
             /\ result' = [op |-> "close_position", err |-> "ok"]
    /\ UNCHANGED <<orders, liquidity_pool, pc, idx, tick_price, ticks, quiet>>

\* ------------------------------------------------------- execute_trade
\* execute_trade, had the pool been decremented before the liquidity check
execute_trade_DeductFirst(amount, price, pool) ==
    IF amount = 0
    THEN [err |-> "Trade amount must be a non-zero number.", pool |-> pool]
    ELSE IF price <= 0
    THEN [err |-> "Price must be positive.", pool |-> pool]
    ELSE IF pool < Abs(amount) * price
    THEN [err |-> "Insufficient liquidity in the pool.",
          pool |-> pool - Abs(amount) * price]
    ELSE [err |-> "ok", pool |-> pool - Abs(amount) * price]

\* execute_trade, had the liquidity check been left out
execute_trade_NoCheck(amount, price, pool) ==
    IF amount = 0
    THEN [err |-> "Trade amount must be a non-zero number.", pool |-> pool]
    ELSE IF price <= 0
    THEN [err |-> "Price must be positive.", pool |-> pool]
    ELSE [err |-> "ok", pool |-> pool - Abs(amount) * price]

\* JupiterAPI.execute_trade: the ValueError it raises ("ok" when it returns
\* True) and the pool it leaves.
execute_trade(amount, price, pool) ==
    IF amount = 0
    THEN [err |-> "Trade amount must be a non-zero number.", pool |-> pool]
    ELSE IF price <= 0
    THEN [err |-> "Price must be positive.", pool |-> pool]
    ELSE IF pool < Abs(amount) * price
    THEN [err |-> "Insufficient liquidity in the pool.", pool |-> pool]
    ELSE [err |-> "ok", pool |-> pool - Abs(amount) * price]

\* ------------------------------------------------ update_trailing_stop
\* update_trailing_stop, had the new stop been stored without comparing it
\* with the current one
update_trailing_stop_Unconditional(order, price) ==
    IF ~order.trailing_stop \/ ~order.active \/ ~Truthy(order.entry_price)
    THEN [order |-> order, err |-> "ok", out |-> <<>>]
    ELSE LET trail_distance == (price * order.trail_percent) \div 100 IN
         IF order.stop_loss = None
         THEN [order |-> order, err |-> "TypeError", out |-> <<>>]
         ELSE IF order.amount > 0
         THEN [order |-> [order EXCEPT !.stop_loss =
                            Max(order.entry_price, price) - trail_distance],
               err |-> "ok", out |-> <<"Trailing stop updated (long)">>]
         ELSE [order |-> [order EXCEPT !.stop_loss =
                            Min(order.entry_price, price) + trail_distance],
               err |-> "ok", out |-> <<"Trailing stop updated (short)">>]

\* err is "TypeError" when the float new_stop_loss is compared with a
\* stop_loss of None (the comparison is evaluated before the "is None" test).
update_trailing_stop(order, price) ==
    IF ~order.trailing_stop \/ ~order.active \/ ~Truthy(order.entry_price)
    THEN [order |-> order, err |-> "ok", out |-> <<>>]
    ELSE LET trail_distance == (price * order.trail_percent) \div 100 IN
         IF order.amount > 0
         THEN LET max_price == Max(order.entry_price, price)
                  new_stop_loss == max_price - trail_distance IN
              IF order.stop_loss = None
              THEN [order |-> order, err |-> "TypeError", out |-> <<>>]
              ELSE IF new_stop_loss > order.stop_loss
              THEN [order |-> [order EXCEPT !.stop_loss = new_stop_loss],
                    err |-> "ok", out |-> <<"Trailing stop updated (long)">>]
              ELSE [order |-> order, err |-> "ok", out |-> <<>>]
         ELSE LET min_price == Min(order.entry_price, price)
                  new_stop_loss == min_price + trail_distance IN
              IF order.stop_loss = None
              THEN [order |-> order, err |-> "TypeError", out |-> <<>>]
              ELSE IF new_stop_loss < order.stop_loss
              THEN [order |-> [order EXCEPT !.stop_loss = new_stop_loss],
                    err |-> "ok", out |-> <<"Trailing stop updated (short)">>]
              ELSE [order |-> order, err |-> "ok", out |-> <<>>]

\* -------------------------------------------- check_market_and_execute
target_hit(order, price) ==
    \/ order.amount > 0 /\ price >= order.limit_price
    \/ order.amount < 0 /\ price <= order.limit_price

stop_hit(order, price) == Truthy(order.stop_loss) /\ price <= order.stop_loss

profit_hit(order, price) == Truthy(order.take_profit) /\ price >= order.take_profit

new_position(order, price) ==
    [type |-> order.type,
     amount |-> order.amount,
     entry_price |-> price,
     current_value |-> order.amount * price]

\* entry_leg, had the balance been debited by amount * price without abs()
entry_leg_SignedDebit(order, user, pool, price) ==
    IF ~target_hit(order, price)
    THEN [order |-> order, user |-> user, pool |-> pool, err |-> "ok", out |-> <<>>]
    ELSE LET ex == execute_trade(order.amount, price, pool) IN
         IF ex.err = "ok"
         THEN [order |-> [order EXCEPT
                            !.entry_price = price,
                            !.active = IF ~(Truthy(order.stop_loss) \/ Truthy(order.take_profit))
                                       THEN FALSE ELSE @],
               user |-> [user EXCEPT
                            !.positions = Append(@, new_position(order, price)),
                            !.balance = @ - order.amount * price],
               pool |-> ex.pool,
               err |-> "ok",
               out |-> <<"Trade executed", "Executed order">>]
         ELSE [order |-> [order EXCEPT !.active = FALSE],
               user |-> user, pool |-> ex.pool, err |-> "ok",
               out |-> <<"Order execution failed">>]

\* entry_leg, had the ValueError of execute_trade not been caught
entry_leg_Uncaught(order, user, pool, price) ==
    IF ~target_hit(order, price)
    THEN [order |-> order, user |-> user, pool |-> pool, err |-> "ok", out |-> <<>>]
    ELSE LET ex == execute_trade(order.amount, price, pool) IN
         IF ex.err = "ok"
         THEN [order |-> [order EXCEPT
                            !.entry_price = price,
                            !.active = IF ~(Truthy(order.stop_loss) \/ Truthy(order.take_profit))
                                       THEN FALSE ELSE @],
               user |-> [user EXCEPT
                            !.positions = Append(@, new_position(order, price)),
                            !.balance = @ - Abs(order.amount * price)],
               pool |-> ex.pool,
               err |-> "ok",
               out |-> <<"Trade executed", "Executed order">>]
         ELSE [order |-> order, user |-> user, pool |-> ex.pool, err |-> ex.err,
               out |-> <<>>]

\* entry_leg, had the "if target_hit" guard been left out
entry_leg_Unguarded(order, user, pool, price) ==
    LET ex == execute_trade(order.amount, price, pool) IN
    IF ex.err = "ok"
    THEN [order |-> [order EXCEPT
                       !.entry_price = price,
                       !.active = IF ~(Truthy(order.stop_loss) \/ Truthy(order.take_profit))
                                  THEN FALSE ELSE @],
          user |-> [user EXCEPT
                       !.positions = Append(@, new_position(order, price)),
                       !.balance = @ - Abs(order.amount * price)],
          pool |-> ex.pool,
          err |-> "ok",
          out |-> <<"Trade executed", "Executed order">>]
    ELSE [order |-> [order EXCEPT !.active = FALSE],
          user |-> user, pool |-> ex.pool, err |-> "ok",
          out |-> <<"Order execution failed">>]

\* if target_hit: try: execute_trade ... except ValueError: the entry leg of
\* one loop iteration.  err is an exception that leaves the try block.
entry_leg(order, user, pool, price) ==
    IF ~target_hit(order, price)
    THEN [order |-> order, user |-> user, pool |-> pool, err |-> "ok", out |-> <<>>]
    ELSE LET ex == execute_trade(order.amount, price, pool) IN
         IF ex.err = "ok"
         THEN [order |-> [order EXCEPT
                            !.entry_price = price,
                            !.active = IF ~(Truthy(order.stop_loss) \/ Truthy(order.take_profit))
                                       THEN FALSE ELSE @],
               user |-> [user EXCEPT
                            !.positions = Append(@, new_position(order, price)),
                            !.balance = @ - Abs(order.amount * price)],
               pool |-> ex.pool,
               err |-> "ok",
               out |-> <<"Trade executed", "Executed order">>]
         ELSE [order |-> [order EXCEPT !.active = FALSE],
               user |-> user, pool |-> ex.pool, err |-> "ok",
               out |-> <<"Order execution failed">>]

\* if order["entry_price"] and order["trailing_stop"]: update_trailing_stop
trailing_leg(order, price) ==
    IF Truthy(order.entry_price) /\ order.trailing_stop
    THEN update_trailing_stop(order, price)
    ELSE [order |-> order, err |-> "ok", out |-> <<>>]

\* exit_leg, had each leg been settled by an "if" of its own
exit_leg_BothLegs(order, user, sh, ph, price) ==
    IF Truthy(order.entry_price) /\ (sh \/ ph)
    THEN [order |-> [order EXCEPT !.active = FALSE],
          user |-> [user EXCEPT !.balance =
                      @ + (IF sh THEN Abs(order.amount * price) ELSE 0)
                        + (IF ph THEN Abs(order.amount * price) ELSE 0)],
          out |-> (IF sh THEN <<"Stop loss triggered">> ELSE <<>>)
                  \o (IF ph THEN <<"Take profit triggered">> ELSE <<>>)]
    ELSE [order |-> order, user |-> user, out |-> <<>>]

\* if order["entry_price"] and (stop_hit or profit_hit): the exit leg, with
\* the stop_hit and profit_hit computed at the top of the iteration.
exit_leg(order, user, sh, ph, price) ==
    IF Truthy(order.entry_price) /\ (sh \/ ph)
    THEN IF order.oco
         THEN [order |-> [order EXCEPT !.active = FALSE],
               user |-> [user EXCEPT !.balance = @ + Abs(order.amount * price)],
               out |-> IF sh THEN <<"OCO triggered stop loss">>
                             ELSE <<"OCO triggered take profit">>]
         ELSE IF sh
         THEN [order |-> [order EXCEPT !.active = FALSE],
               user |-> [user EXCEPT !.balance = @ + Abs(order.amount * price)],
               out |-> <<"Stop loss triggered">>]
         ELSE [order |-> [order EXCEPT !.active = FALSE],
               user |-> [user EXCEPT !.balance = @ + Abs(order.amount * price)],
               out |-> <<"Take profit triggered">>]
    ELSE [order |-> order, user |-> user, out |-> <<>>]

\* user["portfolio_history"].append(...), with the tick's number for time.time()
snapshot(user, now) ==
    [user EXCEPT !.portfolio_history =
        Append(@, [time |-> now, balance |-> user.balance,
                   positions_value |-> SumValues(user.positions)])]

\* loop_body, had an abandoned entry (inactive, never filled) been re-armed
\* for a retry instead of skipped
loop_body_Retry(order, user, pool, price, now) ==
    IF ~order.active /\ Truthy(order.entry_price)
    THEN [order |-> order, user |-> user, pool |-> pool, err |-> "ok", out |-> <<>>]
    ELSE LET sh == stop_hit(order, price)
             ph == profit_hit(order, price)
             e == entry_leg([order EXCEPT !.active = TRUE], user, pool, price)
             t == trailing_leg(e.order, price) IN
         IF t.err # "ok"
         THEN [order |-> t.order, user |-> e.user, pool |-> e.pool,
               err |-> t.err, out |-> e.out \o t.out]
         ELSE LET x == exit_leg(t.order, e.user, sh, ph, price) IN
              [order |-> x.order, user |-> snapshot(x.user, now),
               pool |-> e.pool, err |-> "ok",
               out |-> e.out \o t.out \o x.out]

\* One iteration of "for order in self.orders".  err is the exception that
\* leaves the loop (and the call), "ok" when the iteration completes.
loop_body(order, user, pool, price, now) ==
    IF ~order.active
    THEN [order |-> order, user |-> user, pool |-> pool, err |-> "ok", out |-> <<>>]
    ELSE LET sh == stop_hit(order, price)
             ph == profit_hit(order, price)
             e == entry_leg(order, user, pool, price) IN
         IF e.err # "ok"
         THEN [order |-> e.order, user |-> e.user, pool |-> e.pool,
               err |-> e.err, out |-> e.out]
         ELSE LET t == trailing_leg(e.order, price) IN
              IF t.err # "ok"
              THEN [order |-> t.order, user |-> e.user, pool |-> e.pool,
                    err |-> t.err, out |-> e.out \o t.out]
              ELSE LET x == exit_leg(t.order, e.user, sh, ph, price) IN
                   [order |-> x.order, user |-> snapshot(x.user, now),
                    pool |-> e.pool, err |-> "ok",
                    out |-> e.out \o t.out \o x.out]

\* No entry and no exit condition of any active order holds at this price.
no_trigger(os, price) ==
    \A k \in 1..Len(os) :
        os[k].active =>
            /\ ~target_hit(os[k], price)
            /\ ~stop_hit(os[k], price)
            /\ ~profit_hit(os[k], price)

\* The same, counting an exit condition only for an order whose entry has
\* filled (the exit leg looks at no other).
no_trigger_due(os, price) ==
    \A k \in 1..Len(os) :
        os[k].active =>
            /\ ~target_hit(os[k], price)
            /\ ~(Truthy(os[k].entry_price)
                    /\ (stop_hit(os[k], price) \/ profit_hit(os[k], price)))

\* current_price = get_price(); update_positions() (which samples again and
\* refreshes every position with its own sample); print.
TickBegin ==
    /\ pc = "idle"
    /\ ticks < MaxTicks
    /\ \E price \in get_price(current_price) :
       \E price2 \in get_price(price) :
        /\ tick_price' = price
        /\ current_price' = price2
        /\ users' = [u \in DOMAIN users |->
                        [users[u] EXCEPT !.positions = RefreshAll(@, price2)]]
        /\ quiet' = IF no_trigger(orders, price) THEN "strict"
                     ELSE IF no_trigger_due(orders, price) THEN "due"
                     ELSE "no"
    /\ ticks' = ticks + 1
    /\ pc' = "loop"
    /\ idx' = 1
    /\ out' = <<"Current price">>
    /\ result' = [op |-> "check_market_and_execute", err |-> "running"]
    /\ UNCHANGED <<orders, liquidity_pool, closes>>

TickOrder ==
    /\ pc = "loop"
    /\ idx <= Len(orders)
    /\ LET order == orders[idx]
           r == loop_body(order, users[order.username], liquidity_pool,
                          tick_price, ticks) IN
        /\ orders' = [orders EXCEPT ![idx] = r.order]
        /\ users' = [users EXCEPT ![order.username] = r.user]
        /\ liquidity_pool' = r.pool
        /\ out' = r.out
        /\ IF r.err = "ok"
           THEN /\ idx' = idx + 1
                /\ UNCHANGED <<pc, tick_price, result>>
           ELSE /\ pc' = "idle"
                /\ idx' = 0
                /\ tick_price' = None
                /\ result' = [op |-> "check_market_and_execute", err |-> Raised(r.err)]
    /\ UNCHANGED <<current_price, ticks, closes, quiet>>

TickEnd ==
    /\ pc = "loop"
    /\ idx > Len(orders)
    /\ pc' = "idle"
    /\ idx' = 0
    /\ tick_price' = None
    /\ out' = <<>>
    /\ result' = [op |-> "check_market_and_execute", err |-> "ok"]
    /\ UNCHANGED <<users, orders, current_price, liquidity_pool, ticks, closes, quiet>>

Next ==
    \/ Register
    \/ PlaceOrder
    \/ ClosePosition
    \/ TickBegin
    \/ TickOrder
    \/ TickEnd

Spec == Init /\ [][Next]_vars

\* ======================================================== properties
Has(s, x) == \E k \in 1..Len(s) : s[k] = x

\* A step that runs one iteration of the tick's loop on orders[idx]
IterStep == pc = "loop" /\ idx <= Len(orders)

\* The iteration's order and its owner, before the step
Cur == orders[idx]

Owner == users[orders[idx].username]

OwnerAfter == users'[orders[idx].username]

\* What the iteration did, read from what it printed
Filled == Has(out', "Executed order")

Rejected == Has(out', "Order execution failed")

ExitLines == {"OCO triggered stop loss", "OCO triggered take profit",
              "Stop loss triggered", "Take profit triggered"}

Exited == \E k \in 1..Len(out') : out'[k] \in ExitLines

Cost == Abs(orders[idx].amount * tick_price)

SameBalances == \A u \in DOMAIN users : users'[u].balance = users[u].balance

SamePositions == \A u \in DOMAIN users : users'[u].positions = users[u].positions

\* C1: once an order's entry_price is set, a later iteration in which the
\* entry condition holds again requests no execution from the pool, adds no
\* position, does not debit the balance and leaves entry_price alone.
C1_EntryFillsOnce ==
    [][(IterStep /\ Cur.active /\ Truthy(Cur.entry_price)
            /\ target_hit(Cur, tick_price))
        => /\ ~Filled /\ ~Rejected
           /\ liquidity_pool' = liquidity_pool
           /\ Len(OwnerAfter.positions) = Len(Owner.positions)
           /\ OwnerAfter.balance >= Owner.balance
           /\ orders'[idx].entry_price = Cur.entry_price]_vars

\* C2: an order whose active flag is false keeps it false in every later
\* state, whatever is called.
C2_ActiveMonotonic ==
    [][\A k \in 1..Len(orders) :
          ~orders[k].active => (k <= Len(orders') /\ ~orders'[k].active)]_vars

\* C2 witness: an order that was already inactive when the second tick's loop
\* reached it (the loop has passed it without a snapshot for its owner) and
\* is still inactive.
C2_Witness ==
    /\ pc = "loop"
    /\ ticks = 2
    /\ \E k \in 1..Len(orders) :
        /\ k < idx
        /\ ~orders[k].active
        /\ \A h \in 1..Len(users[orders[k].username].portfolio_history) :
              users[orders[k].username].portfolio_history[h].time # ticks

\* C3: one iteration on an oco order credits the owner's balance by
\* |amount| * price at most once, and when the stop-loss condition (against
\* the stop the iteration starts with or the one it leaves) and the
\* take-profit condition both hold, the only exit it reports is the stop-loss.
C3_OcoOneExit ==
    [][(IterStep /\ Cur.active /\ Cur.oco)
        => /\ OwnerAfter.balance + (IF Filled THEN Cost ELSE 0) - Owner.balance
                \in {0, Cost}
           /\ Cardinality({k \in 1..Len(out') : out'[k] \in ExitLines}) <= 1
           /\ (/\ profit_hit(Cur, tick_price)
               /\ stop_hit(Cur, tick_price) \/ stop_hit(orders'[idx], tick_price))
                => /\ \A k \in 1..Len(out') :
                        out'[k] \in ExitLines => out'[k] = "OCO triggered stop loss"
                   /\ Truthy(orders'[idx].entry_price) => Exited]_vars

\* C3 witness: an oco order has just exited in an iteration where both
\* the stop-loss and the take-profit condition held.
C3_Witness ==
    /\ pc = "loop"
    /\ idx > 1
    /\ orders[idx - 1].oco
    /\ stop_hit(orders[idx - 1], tick_price)
    /\ profit_hit(orders[idx - 1], tick_price)
    /\ Has(out, "OCO triggered stop loss")

\* C4: while an order is active with trailing enabled, no step lowers the
\* stop_loss of a long order or raises that of a short order.
C4_TrailingMonotonic ==
    [][\A k \in 1..Len(orders) :
          (orders[k].active /\ orders[k].trailing_stop /\ orders[k].stop_loss # None)
          => /\ orders'[k].stop_loss # None
             /\ orders[k].amount > 0 => orders'[k].stop_loss >= orders[k].stop_loss
             /\ orders[k].amount < 0 => orders'[k].stop_loss <= orders[k].stop_loss]_vars

PlacedStops == {rq.stop_loss : rq \in Requests}

\* C4 witness: a long and a short trailing order whose stops have both been
\* moved away from the level they were placed with.
C4_Witness ==
    /\ \E k \in 1..Len(orders) :
          /\ orders[k].trailing_stop /\ orders[k].amount > 0
          /\ orders[k].stop_loss \notin PlacedStops
    /\ \E k \in 1..Len(orders) :
          /\ orders[k].trailing_stop /\ orders[k].amount < 0
          /\ orders[k].stop_loss \notin PlacedStops

\* The entry of the unfilled active order orders[idx] triggers in this
\* iteration and the pool lacks the capacity for it.
RejectionStep ==
    /\ IterStep
    /\ Cur.active
    /\ ~Truthy(Cur.entry_price)
    /\ target_hit(Cur, tick_price)
    /\ liquidity_pool < Abs(Cur.amount) * tick_price

\* C5: when the pool rejects the entry of an unfilled active order, the
\* order becomes inactive and no position, balance or pool capacity changes.
C5_RejectionAbandons ==
    [][RejectionStep
        => /\ ~orders'[idx].active
           /\ orders'[idx].entry_price = None
           /\ SamePositions
           /\ SameBalances
           /\ liquidity_pool' = liquidity_pool]_vars

\* C5 witness: the last iteration was rejected by the pool and left its
\* order inactive and unfilled.
C5_Witness ==
    /\ pc = "loop"
    /\ idx > 1
    /\ Has(out, "Order execution failed")
    /\ ~orders[idx - 1].active
    /\ orders[idx - 1].entry_price = None

\* C6: a liquidity rejection changes no order but the rejected one and does
\* not end the tick: the loop goes on to the next order.
C6_RejectionIsolated ==
    [][RejectionStep
        => /\ \A k \in 1..Len(orders) : k # idx => orders'[k] = orders[k]
           /\ Len(orders') = Len(orders)
           /\ pc' = "loop"
           /\ idx' = idx + 1
           /\ result' = result]_vars

\* C6 witness: in the first tick the first order was rejected by the pool
\* and the loop then evaluated the second, which filled.
C6_Witness ==
    /\ pc = "loop"
    /\ ticks = 1
    /\ idx = 3
    /\ ~orders[1].active
    /\ orders[1].entry_price = None
    /\ Has(out, "Executed order")

\* C7: a place_order call, failed or not, changes no balance, no position
\* and not the pool's capacity.
C7_PlaceOrderFrame ==
    [][result'.op = "place_order"
        => /\ SameBalances
           /\ SamePositions
           /\ DOMAIN users' = DOMAIN users
           /\ liquidity_pool' = liquidity_pool]_vars

\* C7 witness: place_order has just admitted an order for an account that
\* holds a position.
C7_Witness ==
    /\ result = [op |-> "place_order", err |-> "ok"]
    /\ \E u \in DOMAIN users : users[u].positions # <<>>

\* C8: a place_order call that raises leaves the order list and every
\* account's order list as they were.
C8_FailedPlaceOrderFrame ==
    [][(result'.op = "place_order" /\ result'.err # "ok")
        => /\ orders' = orders
           /\ \A u \in DOMAIN users : users'[u].orders = users[u].orders
           /\ DOMAIN users' = DOMAIN users]_vars

\* C8 witness: place_order has just raised while orders stand.
C8_Witness ==
    /\ result.op = "place_order"
    /\ result.err = "ValueError"
    /\ orders # <<>>

\* A step of a tick that sampled a price at which no active order's entry
\* or exit condition held
StrictlyQuietTickStep ==
    \/ pc = "idle" /\ pc' = "loop" /\ quiet' = "strict"
    \/ pc = "loop" /\ quiet = "strict"

\* The same, also when the exit condition of an unfilled order held
QuietTickStep ==
    \/ pc = "idle" /\ pc' = "loop" /\ quiet' # "no"
    \/ pc = "loop" /\ quiet # "no"

\* C9 as stated: a tick in which no trigger condition holds leaves every
\* balance, position and order as it was.
C9_QuietTickChangesNothing ==
    [][StrictlyQuietTickStep => /\ SameBalances
                                /\ SamePositions
                                /\ orders' = orders]_vars

Structure(ps) == [k \in 1..Len(ps) |-> [ps[k] EXCEPT !.current_value = 0]]

\* C9 amended: a tick in which no entry condition holds and no exit
\* condition of a filled order holds leaves every balance, the pool, the
\* positions up to their current_value and the orders up to their stop_loss
\* as they were.
C9_QuietTickFrame ==
    [][QuietTickStep
        => /\ SameBalances
           /\ liquidity_pool' = liquidity_pool
           /\ \A u \in DOMAIN users :
                 Structure(users'[u].positions) = Structure(users[u].positions)
           /\ Len(orders') = Len(orders)
           /\ \A k \in 1..Len(orders) :
                 [orders'[k] EXCEPT !.stop_loss = 0] = [orders[k] EXCEPT !.stop_loss = 0]]_vars

\* C9 witness: the loop of a quiet tick has passed an active, filled order
\* whose owner holds a position.
C9_Witness ==
    /\ pc = "loop"
    /\ quiet = "strict"
    /\ \E k \in 1..Len(orders) :
          /\ k < idx
          /\ orders[k].active
          /\ Truthy(orders[k].entry_price)
          /\ users[orders[k].username].positions # <<>>

\* C10: an iteration that settles an exit removes the order's position from
\* the owner's account.
C10_ExitRemovesPosition ==
    [][(IterStep /\ Exited)
        => Len(OwnerAfter.positions)
             = Len(Owner.positions) + (IF Filled THEN 1 ELSE 0) - 1]_vars

\* The entry of the unfilled active order orders[idx] triggers in this
\* iteration and the pool has the capacity for it.
AcceptedEntryStep ==
    /\ IterStep
    /\ Cur.active
    /\ ~Truthy(Cur.entry_price)
    /\ target_hit(Cur, tick_price)
    /\ liquidity_pool >= Abs(Cur.amount) * tick_price

\* C11: when the entry of an unfilled active order triggers at the tick's
\* price p and the pool accepts, the iteration sets entry_price to p, appends
\* exactly one position with entry price p and the order's amount to the
\* owner's account, and debits the owner's balance by |amount| * p (an exit
\* settled by the same iteration credits on top of that debit); no other
\* account's balance or positions change.
C11_EntryFillEffects ==
    [][AcceptedEntryStep
        => /\ orders'[idx].entry_price = tick_price
           /\ Len(OwnerAfter.positions) = Len(Owner.positions) + 1
           /\ SubSeq(OwnerAfter.positions, 1, Len(Owner.positions)) = Owner.positions
           /\ OwnerAfter.positions[Len(OwnerAfter.positions)].entry_price = tick_price
           /\ OwnerAfter.positions[Len(OwnerAfter.positions)].amount = Cur.amount
           /\ OwnerAfter.balance
                = Owner.balance - Abs(Cur.amount) * tick_price
                    + (IF Exited THEN Abs(Cur.amount) * tick_price ELSE 0)
           /\ \A u \in DOMAIN users :
                 u # Cur.username
                 => /\ users'[u].balance = users[u].balance
                    /\ users'[u].positions = users[u].positions]_vars

\* C11 witness: the last iteration filled a short order at the tick's price
\* without an exit; it is the only fill its owner has had, the one position
\* carries that price and the order's amount, and the balance is the
\* registered one less |amount| * price.
C11_Witness ==
    /\ pc = "loop"
    /\ idx > 1
    /\ closes = 0
    /\ Has(out, "Executed order")
    /\ \A k \in 1..Len(out) : out[k] \notin ExitLines
    /\ orders[idx - 1].amount < 0
    /\ orders[idx - 1].entry_price = tick_price
    /\ LET user == users[orders[idx - 1].username] IN
       /\ Len(user.positions) = 1
       /\ user.positions[1].entry_price = tick_price
       /\ user.positions[1].amount = orders[idx - 1].amount
       /\ user.balance = 2000000 - Abs(orders[idx - 1].amount) * tick_price

\* A close_position call that returned normally; the price it sampled is
\* current_price'.
CloseStep ==
    /\ pc = "idle"
    /\ result'.op = "close_position"
    /\ result'.err = "ok"
    /\ closes' = closes + 1

\* C12: close_position with a valid index removes exactly that position and
\* raises the owner's balance by |amount| * the price sampled in the call, so
\* by a non-negative credit for a long and for a short position alike.
C12_CloseCreditsMagnitude ==
    [][CloseStep
        => \E u \in DOMAIN users : \E k \in 1..Len(users[u].positions) :
              /\ users'[u].positions = RemoveAt(users[u].positions, k)
              /\ users'[u].balance
                   = users[u].balance + Abs(users[u].positions[k].amount) * current_price'
              /\ users'[u].balance >= users[u].balance
              /\ \A w \in DOMAIN users : w # u => users'[w] = users[w]]_vars

HasExitLeg(order) == Truthy(order.stop_loss) \/ Truthy(order.take_profit)

\* C13: an iteration that fills an order with neither stop_loss nor
\* take_profit leaves it inactive; an iteration on a filled order with an
\* exit leg leaves it active unless an exit condition holds at the tick's
\* price (against the stop the iteration starts with or the one it leaves).
C13_ActiveUntilExit ==
    [][(IterStep /\ Cur.active)
        => /\ (Filled /\ ~HasExitLeg(Cur)) => ~orders'[idx].active
           /\ (/\ HasExitLeg(Cur)
               /\ Truthy(orders'[idx].entry_price)
               /\ ~stop_hit(Cur, tick_price)
               /\ ~stop_hit(orders'[idx], tick_price)
               /\ ~profit_hit(Cur, tick_price))
                => orders'[idx].active]_vars

\* C14: while a tick's loop runs, the oracle's price is the one sample the
\* tick took, and every position's current_value is its amount times that
\* sample.
C14_SingleSample ==
    pc = "loop"
    => /\ current_price = tick_price
       /\ \A u \in DOMAIN users : \A k \in 1..Len(users[u].positions) :
             users[u].positions[k].current_value
               = users[u].positions[k].amount * tick_price

\* C15: no step changes an order that is inactive or moves a balance in an
\* iteration on it, and an iteration that sets active to false at its entry
\* leg (a rejection, or the fill of an order without exit legs) writes
\* nothing else to the order and moves no balance afterwards.
C15_InactiveUntouched ==
    [][/\ \A k \in 1..Len(orders) :
             ~orders[k].active => (k <= Len(orders') /\ orders'[k] = orders[k])
       /\ (IterStep /\ ~Cur.active) => SameBalances
       /\ (IterStep /\ Rejected)
            => /\ orders'[idx] = [Cur EXCEPT !.active = FALSE]
               /\ ~Exited
               /\ SameBalances
       /\ (IterStep /\ Filled /\ ~HasExitLeg(Cur))
            => /\ orders'[idx] = [Cur EXCEPT !.active = FALSE, !.entry_price = tick_price]
               /\ ~Exited
               /\ OwnerAfter.balance = Owner.balance - Cost]_vars

\* C16: an iteration on a filled trailing order that leaves a stop_loss at
\* or above the tick's price settles the stop exit in that same iteration.
C16_StopExitAfterRecalculation ==
    [][(/\ IterStep
        /\ Cur.active
        /\ Cur.trailing_stop
        /\ ~Rejected
        /\ result'.err # "TypeError"
        /\ Truthy(orders'[idx].entry_price)
        /\ stop_hit(orders'[idx], tick_price))
        => /\ Has(out', "OCO triggered stop loss") \/ Has(out', "Stop loss triggered")
           /\ ~orders'[idx].active]_vars

\* The candidate stop of the trailing recalculation
CandidateStop(order, price) ==
    IF order.amount > 0
    THEN Max(order.entry_price, price) - (price * order.trail_percent) \div 100
    ELSE Min(order.entry_price, price) + (price * order.trail_percent) \div 100

\* C17: an iteration on a filled, active trailing order whose stop_loss is
\* unset raises nothing, goes on with the loop and leaves stop_loss at the
\* candidate stop.
C17_TrailingFromUnsetStop ==
    [][(/\ IterStep
        /\ Cur.active
        /\ Cur.trailing_stop
        /\ Cur.stop_loss = None
        /\ ~Rejected
        /\ Truthy(orders'[idx].entry_price))
        => /\ result'.err # "TypeError"
           /\ pc' = "loop"
           /\ orders'[idx].stop_loss = CandidateStop(orders'[idx], tick_price)]_vars

\* C18: no account holds two portfolio_history entries of the same tick,
\* and none holds an entry of a tick whose loop still has orders to process.
C18_OneSnapshotPerTick ==
    \A u \in DOMAIN users :
        LET history == users[u].portfolio_history IN
        /\ \A h1, h2 \in 1..Len(history) :
               h1 # h2 => history[h1].time # history[h2].time
        /\ (pc = "loop" /\ idx <= Len(orders))
             => \A h \in 1..Len(history) : history[h].time # ticks

\* C19: the pool never goes below zero and no step raises it; only an
\* iteration whose entry triggers can change it: by exactly -|amount| * price
\* when the pool has that capacity, and not at all when it is rejected.
C19_PoolNeverGrows ==
    [][/\ liquidity_pool >= 0
       /\ liquidity_pool' >= 0
       /\ liquidity_pool' <= liquidity_pool
       /\ liquidity_pool' =
            IF /\ IterStep
               /\ Cur.active
               /\ target_hit(Cur, tick_price)
               /\ liquidity_pool >= Abs(Cur.amount) * tick_price
            THEN liquidity_pool - Abs(Cur.amount) * tick_price
            ELSE liquidity_pool]_vars

\* C19 witness: the last iteration was rejected by a pool that earlier
\* fills have lowered, to a capacity that is still not negative.
C19_Witness ==
    /\ pc = "loop"
    /\ Has(out, "Order execution failed")
    /\ 0 <= liquidity_pool
    /\ liquidity_pool < StartPool
    /\ \E u \in DOMAIN users : users[u].positions # <<>>

RECURSIVE SumCosts(_)
\* The entry debits that a list of positions stands for
SumCosts(ps) ==
    IF ps = <<>> THEN 0
    ELSE Abs(Head(ps).amount) * Head(ps).entry_price + SumCosts(Tail(ps))

\* C20: every step lowers the pool by exactly the entry debit it makes:
\* an iteration by what it takes from its owner's balance (net of the exit
\* credit it settles) and from no other balance, any other step by nothing.
C20_PoolDebitConservation ==
    [][/\ IterStep
            => /\ liquidity_pool - liquidity_pool'
                    = Owner.balance - OwnerAfter.balance + (IF Exited THEN Cost ELSE 0)
               /\ \A u \in DOMAIN users :
                     u # Cur.username => users'[u].balance = users[u].balance
       /\ ~IterStep => liquidity_pool' = liquidity_pool]_vars

\* C20 witness: two accounts hold positions, nothing has been closed, a
\* rejection has just happened, and the capacity the pool has lost is the
\* sum of the entry debits of all positions.
C20_Witness ==
    /\ closes = 0
    /\ Has(out, "Order execution failed")
    /\ Cardinality({u \in DOMAIN users : users[u].positions # <<>>}) = 2
    /\ StartPool - liquidity_pool
         = SumCosts(users["alice"].positions) + SumCosts(users["bob"].positions)
====
